---- MODULE Spec2Model ----
(***************************************************************************)
(* A model of fauxmo's protocols.py: the Fauxmo TCP protocol (one instance *)
(* per accepted connection, answering WeMo description and control         *)
(* requests) and the SSDPServer datagram protocol (answering M-SEARCH      *)
(* queries with one delayed reply per registered device).                  *)
(*                                                                         *)
(* Text is modelled by the fragments the code looks for.  A TCP message is *)
(* its request line plus the set of fragments occurring after it; a        *)
(* datagram is its man line, the set of its ST lines and its MX line.      *)
(* Every test of the code (startswith, in, casefold, replace, splitlines,  *)
(* split, isnumeric, float) is an operator over that representation.       *)
(* The inputs are the texts data.decode() yields: the wire protocols are   *)
(* text, and bytes that are not UTF-8 are outside the model.               *)
(*                                                                         *)
(* Both protocols run on one asyncio event loop: a callback runs to its    *)
(* end before the next one starts, so each callback is one action.  A      *)
(* Fauxmo may be handed data before connection_made (its handlers test for *)
(* that); a transport that was closed delivers no further data.            *)
(***************************************************************************)
EXTENDS Integers, Sequences, FiniteSets, TLC

VARIABLES
    fauxmo,     \* conn -> the Fauxmo instance: name, serial, plugin, transport
    nwrite,     \* conn -> number of transport.write calls made so far
    nclose,     \* conn -> number of transport.close calls made so far
    nrecv,      \* conn -> number of data_received calls since connection_made
    ncalls,     \* device name -> number of calls made to that device's plugin
    devices,    \* SSDPServer.devices: sequence of device dicts
    tasks,      \* futures created by ensure_future and not yet finished
    last        \* the handler run that has just finished: its input and what it did

vars == <<fauxmo, nwrite, nclose, nrecv, ncalls, devices, tasks, last>>

-----------------------------------------------------------------------------
(* Bounds of the model *)

MaxRest == 3        \* fragments after the request line of a TCP message
MaxDevices == 2     \* devices added to the SSDP registry
MaxST == 2          \* ST lines in one datagram
MaxRecv == 2        \* data_received calls on one connection
MaxPending == 3     \* replies pending when a datagram arrives during their delays

None == "None"

Min(a, b) == IF a < b THEN a ELSE b
Max(a, b) == IF a > b THEN a ELSE b

SubsetsUpTo(S, n) == {T \in SUBSET S : Cardinality(T) <= n}

-----------------------------------------------------------------------------
(* The external collaborators *)

\* device names; "caf<U+00E9>" stands for the four characters c, a, f and
\* LATIN SMALL LETTER E WITH ACUTE
Names == {"lamp", "fan", "caf<U+00E9>"}
Conns == {"c1", "c2"}

\* the devices the protocol instances of the two connections are created for
Bindings == {[c \in Conns |-> IF c = "c1" THEN "lamp" ELSE "fan"],
             [c \in Conns |-> "caf<U+00E9>"]}

\* fauxmo.utils.make_serial: a deterministic function of the name alone,
\* distinct names giving distinct serials
make_serial(name) ==
    CASE name = "lamp" -> "44B1A2lamp"
      [] name = "fan"  -> "9C07E3fan"
      [] name = "caf<U+00E9>" -> "D21F5Ccaf<U+00E9>"
      [] OTHER         -> "000000"

\* what a plugin's get_state() may return
PluginStates == {"on", "off", "ON", "Off", "unknown"}

\* random.randint(1000, 300000): the two ends of the range
RandomInts == {1000, 300000}

\* int(time.time())
Times == {1611532922}

-----------------------------------------------------------------------------
(* TCP messages *)

RequestLines == {
    [method |-> "GET",  target |-> "/setup.xml HTTP/1.1"],
    [method |-> "GET",  target |-> "/setup.xml HTTP/1.0"],
    [method |-> "POST", target |-> "/setup.xml HTTP/1.1"],
    [method |-> "GET",  target |-> "/eventservice.xml HTTP/1.1"],
    [method |-> "GET",  target |-> "/metainfoservice.xml HTTP/1.1"],
    [method |-> "GET",  target |-> "/insightservice.xml HTTP/1.1"],
    [method |-> "POST", target |-> "/upnp/control/insight1 HTTP/1.1"],
    [method |-> "POST", target |-> "/upnp/control/timesync1 HTTP/1.1"],
    [method |-> "POST", target |-> "/upnp/control/basicevent1 HTTP/1.1"],
    [method |-> "GET",  target |-> "/upnp/control/basicevent1 HTTP/1.1"],
    [method |-> "POST", target |-> "/upnp/control/basicevent1 HTTP/1.0"] }

SoapGetBinaryState   == "SOAPACTION: \"urn:Belkin:service:basicevent:1#GetBinaryState\""
SoapGetBinaryStateLc == "soapaction:\"urn:belkin:service:basicevent:1#getbinarystate\""
SoapGetInsightParams == "SOAPACTION: \"urn:Belkin:service:insight:1#GetInsightParams\""
SoapSetBinaryState   == "SOAPACTION: \"urn:Belkin:service:basicevent:1#SetBinaryState\""
SoapGetFriendlyName  == "SOAPACTION: \"urn:Belkin:service:basicevent:1#GetFriendlyName\""
BinaryState0 == "<BinaryState>0</BinaryState>"
BinaryState1 == "<BinaryState>1</BinaryState>"

SoapFragments ==
    {SoapGetBinaryState, SoapGetBinaryStateLc, SoapGetInsightParams,
     SoapSetBinaryState, SoapGetFriendlyName}

Fragments ==
    {"/eventservice.xml", "/metainfoservice.xml", "/insightservice.xml",
     "/upnp/control/timesync1 HTTP/1.1", BinaryState0, BinaryState1}
    \cup SoapFragments

Messages == [line : RequestLines, rest : SubsetsUpTo(Fragments, MaxRest)]

\* msg.startswith(prefix), for the two prefixes the code tests
StartsWith(msg, prefix) ==
    CASE prefix = "GET /setup.xml HTTP/1.1" ->
            msg.line.method = "GET" /\ msg.line.target = "/setup.xml HTTP/1.1"
      [] prefix = "POST" -> msg.line.method = "POST"
      [] OTHER -> FALSE

\* the fragments of `Fragments` and the control paths occurring in a request target
InTarget(target) ==
    CASE target = "/eventservice.xml HTTP/1.1"        -> {"/eventservice.xml"}
      [] target = "/metainfoservice.xml HTTP/1.1"     -> {"/metainfoservice.xml"}
      [] target = "/insightservice.xml HTTP/1.1"      -> {"/insightservice.xml"}
      [] target = "/upnp/control/insight1 HTTP/1.1"   -> {target}
      [] target = "/upnp/control/timesync1 HTTP/1.1"  -> {target}
      [] target = "/upnp/control/basicevent1 HTTP/1.1" -> {target}
      [] OTHER -> {}

\* `sub in msg`
Contains(msg, sub) == sub \in InTarget(msg.line.target) \cup msg.rest

\* text.casefold().replace(" ", "") of a SOAPACTION header
Fold(frag) ==
    CASE frag \in {SoapGetBinaryState, SoapGetBinaryStateLc} ->
            "soapaction:\"urn:belkin:service:basicevent:1#getbinarystate\""
      [] frag = SoapGetInsightParams ->
            "soapaction:\"urn:belkin:service:insight:1#getinsightparams\""
      [] frag = SoapSetBinaryState ->
            "soapaction:\"urn:belkin:service:basicevent:1#setbinarystate\""
      [] frag = SoapGetFriendlyName ->
            "soapaction:\"urn:belkin:service:basicevent:1#getfriendlyname\""
      [] OTHER -> frag

\* command_format(action).casefold() in msg.casefold().replace(" ", "")
HasCommand(msg, token) == \E f \in msg.rest \cap SoapFragments : Fold(f) = Fold(token)

-----------------------------------------------------------------------------
(* Responses *)

\* A text is a sequence of pieces: a run of ASCII characters, given by its
\* length, or a string given by its code points.
Ascii(n) == [ascii |-> n, cps |-> <<>>]
Str(cps) == [ascii |-> 0, cps |-> cps]

\* the code points of a device name
CodePoints(name) ==
    CASE name = "lamp" -> <<108, 97, 109, 112>>
      [] name = "fan"  -> <<102, 97, 110>>
      [] name = "caf<U+00E9>" -> <<99, 97, 102, 233>>

\* the number of characters of the ASCII strings the handlers put in a body
AsciiLen(str) ==
    CASE str \in {"Get", "Set"}    -> 3
      [] str = "BinaryState"       -> 11
      [] str = "FriendlyName"      -> 12
      [] str = "InsightParams"     -> 13
      [] str = "basicevent"        -> 10
      [] str = "insight"           -> 7
      [] str \in {"0", "1"}        -> 1
      [] str = "1000"              -> 4
      [] str = "300000"            -> 6
      [] str = "1611532922"        -> 10
      [] str = "8|1549126755|0|0|0|9319|10|" -> 27
      [] str = "|0|0.000000|7000"  -> 16
      [] str \in {"0|1611532923|231|300|183183|1209600|8|1170|1164707|99830512",
                  "8|1611530424|231|300|183183|1209600|8|1190|1164707|99830512"} -> 59
      [] str \in {make_serial(n) : n \in Names} -> 36

\* str(n) for the integers the handlers format
StrOf(n) ==
    CASE n = 1000       -> "1000"
      [] n = 300000     -> "300000"
      [] n = 1611532922 -> "1611532922"

\* a string placed in a body, as a piece
Piece(str) == IF str \in Names THEN Str(CodePoints(str)) ELSE Ascii(AsciiLen(str))

RECURSIVE Pieces(_)
Pieces(strs) == IF strs = <<>> THEN <<>> ELSE <<Piece(Head(strs))>> \o Pieces(Tail(strs))

\* the text of a body: the template of its handler with the values formatted
\* into it; the three constant documents end with 2 * NEWLINE
Text(xml) ==
    CASE xml.doc = "setup" ->
            <<Ascii(190), Piece(xml.friendlyName), Ascii(143), Piece(xml.serialNumber),
              Ascii(37), Piece(xml.UDN[2]), Ascii(1059)>>
      [] xml.doc = "eventservice"    -> <<Ascii(778), Ascii(2), Ascii(2)>>
      [] xml.doc = "metainfoservice" -> <<Ascii(475), Ascii(2), Ascii(2)>>
      [] xml.doc = "insightservice"  -> <<Ascii(5088), Ascii(2), Ascii(2)>>
      [] xml.doc = "TimeSyncResponse" -> <<Ascii(197), Piece(xml.UTC), Ascii(49)>>
      [] xml.doc = "soap" ->
            <<Ascii(135), Piece(xml.action), Piece(xml.action_type), Ascii(37),
              Piece(xml.service_type), Ascii(5), Piece(xml.action_type), Ascii(1)>>
            \o Pieces(xml.return_val)
            \o <<Ascii(2), Piece(xml.action_type), Ascii(92), Piece(xml.action),
                 Piece(xml.action_type), Ascii(31)>>

\* the number of bytes of one code point in UTF-8
Utf8Width(cp) ==
    IF cp < 128 THEN 1 ELSE IF cp < 2048 THEN 2 ELSE IF cp < 65536 THEN 3 ELSE 4

RECURSIVE Sum(_)
Sum(ns) == IF ns = <<>> THEN 0 ELSE Head(ns) + Sum(Tail(ns))

\* len(text)
len(text) ==
    Sum([i \in 1..Len(text) |-> text[i].ascii + Len(text[i].cps)])

\* the response header counting the characters of the body
content_length_in_characters(xml) == len(Text(xml))

\* len(xml.encode("utf8"))
content_length(xml) ==
    Sum([i \in 1..Len(Text(xml)) |->
            Text(xml)[i].ascii
            + Sum([j \in 1..Len(Text(xml)[i].cps) |-> Utf8Width(Text(xml)[i].cps[j])])])

\* Fauxmo.add_http_headers: the header block, the blank line that ends it
\* and the body
add_http_headers(xml) ==
    [status |-> "HTTP/1.1 200 OK", content_length |-> content_length(xml),
     connection |-> "close", body |-> xml]

Write(data) == [op |-> "write", data |-> data]
Close == [op |-> "close"]
Call(method, ret) == [op |-> method, ret |-> ret]

Raised == [raised |-> TRUE, events |-> <<>>]
Done(events) == [raised |-> FALSE, events |-> events]

\* Fauxmo.handle_setup
handle_setup(self) ==
    LET setup_xml == [doc |-> "setup", friendlyName |-> self.name,
                      serialNumber |-> self.serial,
                      UDN |-> <<"uuid:Insight-1_0-", self.serial>>]
        setup_response == add_http_headers(setup_xml)
    IN  IF self.transport = None THEN Raised
        ELSE Done(<<Write(setup_response), Close>>)

\* a description handler that closes the transport before it writes
StaticDocument_close_first(self, doc) ==
    IF self.transport = None THEN Raised
    ELSE Done(<<Close, Write(add_http_headers([doc |-> doc]))>>)

\* a description handler that writes and leaves the transport open
StaticDocument_left_open(self, doc) ==
    IF self.transport = None THEN Raised
    ELSE Done(<<Write(add_http_headers([doc |-> doc]))>>)

\* Fauxmo.handle_event, handle_metainfo, handle_insight: constant documents
StaticDocument(self, doc) ==
    IF self.transport = None THEN Raised
    ELSE Done(<<Write(add_http_headers([doc |-> doc])), Close>>)

handle_event(self) == StaticDocument(self, "eventservice")
handle_metainfo(self) == StaticDocument(self, "metainfoservice")
handle_insight(self) == StaticDocument(self, "insightservice")

\* Fauxmo.handle_timesync_command
handle_timesync_command(self, msg, env) ==
    IF self.transport = None THEN Raised
    ELSE LET soap_message == [doc |-> "TimeSyncResponse", UTC |-> StrOf(env.now)]
         IN  Done(<<Write(add_http_headers(soap_message)), Close>>)

MeterOff == "0|1611532923|231|300|183183|1209600|8|1170|1164707|99830512"
MeterOn == "8|1611530424|231|300|183183|1209600|8|1190|1164707|99830512"

\* the state string compared as the plugin returned it
casefold_missing(s) == s

\* str.casefold / str.lower on the state strings
casefold(s) ==
    CASE s = "ON"  -> "on"
      [] s = "Off" -> "off"
      [] OTHER     -> s

\* handle_action, GetBinaryState branch
GetBinaryStateBranch(env) ==
    LET state == casefold(env.state)
    IN  [calls |-> <<Call("get_state", env.state)>>,
         success |-> state \in {"off", "on"},
         action |-> "Get", action_type |-> "BinaryState",
         service_type |-> "basicevent",
         return_val |-> IF state \in {"off", "on"}
                        THEN (IF casefold(state) = "on" THEN <<"1">> ELSE <<"0">>)
                        ELSE <<>>]

\* the SetBinaryState branch with the two literals tested for the wrong methods
SetBinaryStateBranch_swapped(msg, env) ==
    IF Contains(msg, BinaryState1) THEN
        [calls |-> <<Call("off", env.ok)>>, success |-> env.ok,
         action |-> "Set", action_type |-> "BinaryState",
         service_type |-> "basicevent", return_val |-> <<MeterOff>>]
    ELSE IF Contains(msg, BinaryState0) THEN
        [calls |-> <<Call("on", env.ok)>>, success |-> env.ok,
         action |-> "Set", action_type |-> "BinaryState",
         service_type |-> "basicevent", return_val |-> <<MeterOn>>]
    ELSE
        [calls |-> <<>>, success |-> FALSE,
         action |-> "Set", action_type |-> "BinaryState",
         service_type |-> "basicevent", return_val |-> <<>>]

\* the SetBinaryState branch testing the two literals with `if` and `if`
SetBinaryStateBranch_both(msg, env) ==
    IF Contains(msg, BinaryState0) /\ Contains(msg, BinaryState1) THEN
        [calls |-> <<Call("off", env.ok), Call("on", env.ok)>>, success |-> env.ok,
         action |-> "Set", action_type |-> "BinaryState",
         service_type |-> "basicevent", return_val |-> <<MeterOn>>]
    ELSE IF Contains(msg, BinaryState0) THEN
        [calls |-> <<Call("off", env.ok)>>, success |-> env.ok,
         action |-> "Set", action_type |-> "BinaryState",
         service_type |-> "basicevent", return_val |-> <<MeterOff>>]
    ELSE IF Contains(msg, BinaryState1) THEN
        [calls |-> <<Call("on", env.ok)>>, success |-> env.ok,
         action |-> "Set", action_type |-> "BinaryState",
         service_type |-> "basicevent", return_val |-> <<MeterOn>>]
    ELSE
        [calls |-> <<>>, success |-> FALSE,
         action |-> "Set", action_type |-> "BinaryState",
         service_type |-> "basicevent", return_val |-> <<>>]

\* handle_action, SetBinaryState branch
SetBinaryStateBranch(msg, env) ==
    IF Contains(msg, BinaryState0) THEN
        [calls |-> <<Call("off", env.ok)>>, success |-> env.ok,
         action |-> "Set", action_type |-> "BinaryState",
         service_type |-> "basicevent", return_val |-> <<MeterOff>>]
    ELSE IF Contains(msg, BinaryState1) THEN
        [calls |-> <<Call("on", env.ok)>>, success |-> env.ok,
         action |-> "Set", action_type |-> "BinaryState",
         service_type |-> "basicevent", return_val |-> <<MeterOn>>]
    ELSE
        [calls |-> <<>>, success |-> FALSE,
         action |-> "Set", action_type |-> "BinaryState",
         service_type |-> "basicevent", return_val |-> <<>>]

\* the chain with the GetInsightParams branch asking the plugin for its state
ActionBranch_params_from_state(self, msg, env) ==
    IF HasCommand(msg, SoapGetBinaryState) THEN GetBinaryStateBranch(env)
    ELSE IF HasCommand(msg, SoapGetInsightParams) THEN
        [calls |-> <<Call("get_state", env.state)>>, success |-> TRUE,
         action |-> "Get", action_type |-> "InsightParams",
         service_type |-> "insight",
         return_val |-> <<"8|1549126755|0|0|0|9319|10|", StrOf(env.rnd),
                         "|0|0.000000|7000">>]
    ELSE IF HasCommand(msg, SoapSetBinaryState) THEN SetBinaryStateBranch(msg, env)
    ELSE IF HasCommand(msg, SoapGetFriendlyName) THEN
        [calls |-> <<>>, success |-> TRUE,
         action |-> "Get", action_type |-> "FriendlyName",
         service_type |-> "basicevent", return_val |-> <<self.plugin.name>>]
    ELSE
        [calls |-> <<>>, success |-> FALSE,
         action |-> None, action_type |-> None,
         service_type |-> None, return_val |-> <<>>]

\* the chain taking the basicevent actions on the basicevent1 path only
ActionBranch_by_path(self, msg, env) ==
    IF /\ Contains(msg, "/upnp/control/insight1 HTTP/1.1")
       /\ ~HasCommand(msg, SoapGetInsightParams)
    THEN [calls |-> <<>>, success |-> FALSE,
          action |-> None, action_type |-> None,
          service_type |-> None, return_val |-> <<>>]
    ELSE IF HasCommand(msg, SoapGetBinaryState) THEN GetBinaryStateBranch(env)
    ELSE IF HasCommand(msg, SoapGetInsightParams) THEN
        [calls |-> <<>>, success |-> TRUE,
         action |-> "Get", action_type |-> "InsightParams",
         service_type |-> "insight",
         return_val |-> <<"8|1549126755|0|0|0|9319|10|", StrOf(env.rnd),
                         "|0|0.000000|7000">>]
    ELSE IF HasCommand(msg, SoapSetBinaryState) THEN SetBinaryStateBranch(msg, env)
    ELSE IF HasCommand(msg, SoapGetFriendlyName) THEN
        [calls |-> <<>>, success |-> TRUE,
         action |-> "Get", action_type |-> "FriendlyName",
         service_type |-> "basicevent", return_val |-> <<self.plugin.name>>]
    ELSE
        [calls |-> <<>>, success |-> FALSE,
         action |-> None, action_type |-> None,
         service_type |-> None, return_val |-> <<>>]

\* the if/elif chain of handle_action: the plugin calls made, success and
\* the fields of the SOAP response
ActionBranch(self, msg, env) ==
    IF HasCommand(msg, SoapGetBinaryState) THEN GetBinaryStateBranch(env)
    ELSE IF HasCommand(msg, SoapGetInsightParams) THEN
        [calls |-> <<>>, success |-> TRUE,
         action |-> "Get", action_type |-> "InsightParams",
         service_type |-> "insight",
         return_val |-> <<"8|1549126755|0|0|0|9319|10|", StrOf(env.rnd),
                         "|0|0.000000|7000">>]
    ELSE IF HasCommand(msg, SoapSetBinaryState) THEN SetBinaryStateBranch(msg, env)
    ELSE IF HasCommand(msg, SoapGetFriendlyName) THEN
        [calls |-> <<>>, success |-> TRUE,
         action |-> "Get", action_type |-> "FriendlyName",
         service_type |-> "basicevent", return_val |-> <<self.plugin.name>>]
    ELSE
        [calls |-> <<>>, success |-> FALSE,
         action |-> None, action_type |-> None,
         service_type |-> None, return_val |-> <<>>]

\* handle_action returning on failure without reaching the close
handle_action_return_on_failure(self, msg, env) ==
    IF self.transport = None THEN Raised
    ELSE LET b == ActionBranch(self, msg, env)
             soap_message == [doc |-> "soap", action |-> b.action,
                              action_type |-> b.action_type,
                              service_type |-> b.service_type,
                              return_val |-> b.return_val]
         IN  IF b.success
             THEN Done(b.calls \o <<Write(add_http_headers(soap_message)), Close>>)
             ELSE Done(b.calls)

\* handle_action closing after the write and once more at its end
handle_action_close_twice(self, msg, env) ==
    IF self.transport = None THEN Raised
    ELSE LET b == ActionBranch(self, msg, env)
             soap_message == [doc |-> "soap", action |-> b.action,
                              action_type |-> b.action_type,
                              service_type |-> b.service_type,
                              return_val |-> b.return_val]
         IN  IF b.success
             THEN Done(b.calls \o <<Write(add_http_headers(soap_message)), Close, Close>>)
             ELSE Done(b.calls \o <<Close>>)

\* handle_action returning quietly when there is no transport
handle_action_silent(self, msg, env) ==
    IF self.transport = None THEN Done(<<>>)
    ELSE LET b == ActionBranch(self, msg, env)
             soap_message == [doc |-> "soap", action |-> b.action,
                              action_type |-> b.action_type,
                              service_type |-> b.service_type,
                              return_val |-> b.return_val]
         IN  IF b.success
             THEN Done(b.calls \o <<Write(add_http_headers(soap_message)), Close>>)
             ELSE Done(b.calls \o <<Close>>)

\* handle_action looking for its transport after the chain has run
handle_action_check_after_chain(self, msg, env) ==
    LET b == ActionBranch(self, msg, env)
        soap_message == [doc |-> "soap", action |-> b.action,
                         action_type |-> b.action_type,
                         service_type |-> b.service_type,
                         return_val |-> b.return_val]
    IN  IF self.transport = None THEN [raised |-> TRUE, events |-> b.calls]
        ELSE IF b.success
             THEN Done(b.calls \o <<Write(add_http_headers(soap_message)), Close>>)
             ELSE Done(b.calls \o <<Close>>)

\* Fauxmo.handle_action
handle_action(self, msg, env) ==
    IF self.transport = None THEN Raised
    ELSE LET b == ActionBranch(self, msg, env)
             soap_message == [doc |-> "soap", action |-> b.action,
                              action_type |-> b.action_type,
                              service_type |-> b.service_type,
                              return_val |-> b.return_val]
         IN  IF b.success
             THEN Done(b.calls \o <<Write(add_http_headers(soap_message)), Close>>)
             ELSE Done(b.calls \o <<Close>>)

\* the tests of data_received, in the order of its if/elif chain
Tests(msg) == <<
    StartsWith(msg, "GET /setup.xml HTTP/1.1"),
    Contains(msg, "/eventservice.xml"),
    Contains(msg, "/metainfoservice.xml"),
    Contains(msg, "/insightservice.xml"),
    StartsWith(msg, "POST") /\ Contains(msg, "/upnp/control/insight1 HTTP/1.1"),
    StartsWith(msg, "POST") /\ Contains(msg, "/upnp/control/timesync1 HTTP/1.1"),
    StartsWith(msg, "POST") /\ Contains(msg, "/upnp/control/basicevent1 HTTP/1.1") >>

Handlers == <<"handle_setup", "handle_event", "handle_metainfo", "handle_insight",
              "handle_action", "handle_timesync_command", "handle_action">>

\* data_received written with `if` for `elif`: every branch whose test holds
Dispatch_all(msg) ==
    LET hit == {i \in 1..Len(Handlers) : Tests(msg)[i]}
        F[n \in 0..Len(Handlers)] ==
            IF n = 0 THEN <<>>
            ELSE IF n \in hit THEN Append(F[n - 1], Handlers[n]) ELSE F[n - 1]
    IN  F[Len(Handlers)]

\* data_received with a final else that hands the message to handle_action
Dispatch_else_action(msg) ==
    LET hit == {i \in 1..Len(Handlers) : Tests(msg)[i]}
    IN  IF hit = {} THEN <<"handle_action">>
        ELSE <<Handlers[CHOOSE i \in hit : \A j \in hit : i <= j]>>

\* the branches of data_received that run for msg: the first whose test holds
Dispatch(msg) ==
    LET hit == {i \in 1..Len(Handlers) : Tests(msg)[i]}
    IN  IF hit = {} THEN <<>>
        ELSE <<Handlers[CHOOSE i \in hit : \A j \in hit : i <= j]>>

RunHandler(h, self, msg, env) ==
    CASE h = "handle_setup"    -> handle_setup(self)
      [] h = "handle_event"    -> handle_event(self)
      [] h = "handle_metainfo" -> handle_metainfo(self)
      [] h = "handle_insight"  -> handle_insight(self)
      [] h = "handle_action"   -> handle_action(self, msg, env)
      [] h = "handle_timesync_command" -> handle_timesync_command(self, msg, env)

RECURSIVE RunAll(_, _, _, _)
RunAll(hs, self, msg, env) ==
    IF hs = <<>> THEN Done(<<>>)
    ELSE LET r == RunHandler(Head(hs), self, msg, env)
         IN  IF r.raised THEN r
             ELSE LET rest == RunAll(Tail(hs), self, msg, env)
                  IN  [raised |-> rest.raised, events |-> r.events \o rest.events]

\* Fauxmo.data_received, as a function of the instance, the message and the
\* answers of the environment (plugin, clock, random)
data_received(self, msg, env) ==
    LET hs == Dispatch(msg)
        r == RunAll(hs, self, msg, env)
    IN  [handlers |-> hs, raised |-> r.raised, events |-> r.events]

Count(events, op) == Cardinality({i \in 1..Len(events) : events[i].op = op})
Ops(events) == {events[i].op : i \in 1..Len(events)}

\* the answers the environment can give to one handler run; a run consults
\* at most one of plugin.get_state(), plugin.on()/off(), random.randint, time.time
Envs ==
    {[state |-> s, ok |-> TRUE, rnd |-> 1000, now |-> 1611532922] : s \in PluginStates}
    \cup {[state |-> "on", ok |-> FALSE, rnd |-> 300000, now |-> 1611532922]}

\* the answers that matter to a run that calls no plugin method
ClockAndRandom == {env \in Envs : env.state = "on"}

-----------------------------------------------------------------------------
(* SSDP datagrams *)

ManLines == {"man: \"ssdp:discover\"", "MAN: \"ssdp:discover\""}

\* discover_patterns, in list order
discover_patterns == <<
    "ST: urn:Belkin:device:**",
    "ST: urn:Belkin:device:",
    "ST: urn:Belkin:service:basicevent:1",
    "ST: urn:Belkin:service:insight:1",
    "ST: upnp:rootdevice",
    "ST: ssdp:all" >>

STLines ==
    {discover_patterns[i] : i \in 1..Len(discover_patterns)}
    \cup {"ST: urn:Belkin:device:controllee:1", "ST: urn:schemas-upnp-org:device:basic:1"}

\* the lines starting with "MX: ", each as the tokens after "MX: ";
\* "<U+00B2>" stands for the one-character string SUPERSCRIPT TWO
MXLines == {<<"2.0">>, <<"7">>, <<"abc">>, <<"abc", "4">>, <<"-1">>, <<"<U+00B2>">>, <<>>}

Datagrams ==
    [man : ManLines \cup {None}, sts : SubsetsUpTo(STLines, MaxST),
     mx : {<<>>} \cup {<<line>> : line \in MXLines}]

\* data.lower()
lower(line) == IF line \in ManLines THEN "man: \"ssdp:discover\"" ELSE line

\* `pattern in line` for an ST line
Occurs(pattern, line) ==
    \/ pattern = line
    \/ /\ pattern = "ST: urn:Belkin:device:"
       /\ line \in {"ST: urn:Belkin:device:**", "ST: urn:Belkin:device:controllee:1"}

\* `pattern in data`
PatternIn(pattern, data) == \E line \in data.sts : Occurs(pattern, line)

\* the last pattern of the list found in data
FirstPattern_last_listed(data) ==
    LET hit == {i \in 1..Len(discover_patterns) : PatternIn(discover_patterns[i], data)}
    IN  IF hit = {} THEN None
        ELSE discover_patterns[CHOOSE i \in hit : \A j \in hit : i >= j]

\* next((pattern for pattern in discover_patterns if pattern in data), None)
FirstPattern(data) ==
    LET hit == {i \in 1..Len(discover_patterns) : PatternIn(discover_patterns[i], data)}
    IN  IF hit = {} THEN None
        ELSE discover_patterns[CHOOSE i \in hit : \A j \in hit : i <= j]

\* 'man: "ssdp:discover"' in data.lower()
HasMan(data) == data.man # None /\ lower(data.man) = "man: \"ssdp:discover\""

\* mx_line.split()[-1]
LastToken(mx_line) == IF mx_line = <<>> THEN "MX:" ELSE mx_line[Len(mx_line)]

\* mx_str.replace(".", "", 1)
DropFirstDot(mx_str) == IF mx_str = "2.0" THEN "20" ELSE mx_str

\* str.isnumeric: every character has a Unicode numeric value
isnumeric(str) == str \in {"20", "7", "4", "<U+00B2>"}

\* float(mx_str) raises ValueError
FloatRaises(mx_str) == mx_str \notin {"2.0", "7", "4"}

\* float(mx_str)
float(mx_str) ==
    CASE mx_str = "2.0" -> 2
      [] mx_str = "7"   -> 7
      [] mx_str = "4"   -> 4

\* the MX parsing of datagram_received: [raised, mx]
ParseMX(data) ==
    IF data.mx = <<>> THEN [raised |-> FALSE, mx |-> 0]
    ELSE LET mx_line == Head(data.mx)
             mx_str == LastToken(mx_line)
         IN  IF isnumeric(DropFirstDot(mx_str))
             THEN (IF FloatRaises(mx_str)
                   THEN [raised |-> TRUE, mx |-> 0]
                   ELSE [raised |-> FALSE, mx |-> float(mx_str)])
             ELSE [raised |-> FALSE, mx |-> 0]

\* discover_pattern.lstrip("ST: ")
LStripST(pattern) ==
    CASE pattern = "ST: urn:Belkin:device:**"            -> "urn:Belkin:device:**"
      [] pattern = "ST: urn:Belkin:device:"              -> "urn:Belkin:device:"
      [] pattern = "ST: urn:Belkin:service:basicevent:1" -> "urn:Belkin:service:basicevent:1"
      [] pattern = "ST: urn:Belkin:service:insight:1"    -> "urn:Belkin:service:insight:1"
      [] pattern = "ST: upnp:rootdevice"                 -> "upnp:rootdevice"
      [] pattern = "ST: ssdp:all"                        -> "ssdp:all"

\* a reply whose USN is built from the device's address, not from its name
SearchResponse_serial_of_address(device, discover_pattern) ==
    [location |-> <<"http://", device.ip_address, device.port, "/setup.xml">>,
     st |-> discover_pattern,
     usn |-> <<"uuid:Insight-1_0-", make_serial(device.ip_address), "::",
               LStripST(discover_pattern)>>]

\* the reply respond_to_search builds for one device (DATE and the random
\* 01-NLS identifier are left out)
SearchResponse(device, discover_pattern) ==
    [location |-> <<"http://", device.ip_address, device.port, "/setup.xml">>,
     st |-> discover_pattern,
     usn |-> <<"uuid:Insight-1_0-", make_serial(device.name), "::",
               LStripST(discover_pattern)>>]

\* SSDPServer.respond_to_search: the futures it creates, in creation order
respond_to_search(devs, addr, discover_pattern, mx) ==
    LET pattern == IF discover_pattern = "ST: urn:Belkin:device:"
                   THEN "ST: urn:Belkin:device:**" ELSE discover_pattern
    IN  [i \in 1..Len(devs) |->
            [response |-> SearchResponse(devs[i], pattern), addr |-> addr, mx |-> mx]]

\* SSDPServer.datagram_received: [raised, scheduled]
datagram_received(devs, data, addr) ==
    LET discover_pattern == FirstPattern(data)
    IN  IF HasMan(data) /\ discover_pattern # None
        THEN LET p == ParseMX(data)
             IN  IF p.raised THEN [raised |-> TRUE, scheduled |-> <<>>]
                 ELSE [raised |-> FALSE,
                       scheduled |-> respond_to_search(devs, addr, discover_pattern, p.mx)]
        ELSE [raised |-> FALSE, scheduled |-> <<>>]

MaxDelay == 5

\* random.random() * max(0, min(5, mx)), in whole seconds rounded up
Delays(mx) == 0..Max(0, Min(MaxDelay, mx))

DeviceArgs == {[name |-> "lamp", ip_address |-> "10.0.0.5", port |-> 49915],
               [name |-> "fan", ip_address |-> "10.0.0.5", port |-> 49916]}

Addrs == {<<"10.0.0.9", 50000>>, <<"10.0.0.7", 1900>>}

\* a future that stays pending after its coroutine has run
Remove_none(seq, i) == seq

\* the pending futures once the i-th has finished
Remove(seq, i) == [j \in 1..(Len(seq) - 1) |-> IF j < i THEN seq[j] ELSE seq[j + 1]]

-----------------------------------------------------------------------------
(* State machine.  Callbacks run to completion on the event loop, one at a  *)
(* time; `last` describes the run that has just finished, until the loop   *)
(* takes the next event.  A plugin method is an ordinary synchronous call  *)
(* made from inside data_received: while it is outstanding, `last` holds   *)
(* the call and the callback is still on the loop.                         *)

NoRun == [kind |-> "none"]

\* Fauxmo.__init__ for every connection's protocol instance; SSDPServer.__init__
Init ==
    /\ \E b \in Bindings :
          fauxmo = [c \in Conns |-> [name |-> b[c], serial |-> make_serial(b[c]),
                                     plugin |-> [name |-> b[c]], transport |-> None]]
    /\ nwrite = [c \in Conns |-> 0]
    /\ nclose = [c \in Conns |-> 0]
    /\ nrecv = [c \in Conns |-> 0]
    /\ ncalls = [n \in Names |-> 0]
    /\ devices = <<>>
    /\ tasks = <<>>
    /\ last = NoRun

\* the event loop is ready for its next event
ReturnToLoop ==
    /\ last.kind \notin {"none", "call"}
    /\ last' = NoRun
    /\ UNCHANGED <<fauxmo, nwrite, nclose, nrecv, ncalls, devices, tasks>>

\* Fauxmo.connection_made
ConnectionMade(c) ==
    /\ last = NoRun
    /\ fauxmo[c].transport = None
    /\ fauxmo' = [fauxmo EXCEPT ![c].transport = "open"]
    /\ UNCHANGED <<nwrite, nclose, nrecv, ncalls, devices, tasks, last>>

\* the plugin method a run of data_received calls, None when it calls none
PluginCall(self, msg) ==
    LET ops == {"get_state", "on", "off"} \cap
               Ops(data_received(self, msg, CHOOSE env \in Envs : TRUE).events)
    IN  IF ops = {} THEN None ELSE CHOOSE op \in ops : TRUE

\* one plugin object shared by every Fauxmo
PluginOf_shared(self) == "lamp"

\* the plugin whose methods a Fauxmo calls: self.plugin
PluginOf(self) == self.plugin.name

\* data_received on connection c running to its end, with the environment's
\* answers env: the transport calls and the plugin calls it made
Finish(c, msg, env) ==
    \E r \in {data_received(fauxmo[c], msg, env)} :
        /\ last' = [kind |-> "tcp", conn |-> c, msg |-> msg,
                    handlers |-> r.handlers, raised |-> r.raised,
                    events |-> r.events]
        /\ nwrite' = [nwrite EXCEPT ![c] = @ + Count(r.events, "write")]
        /\ nclose' = [nclose EXCEPT ![c] = @ + Count(r.events, "close")]
        /\ ncalls' = [ncalls EXCEPT ![PluginOf(fauxmo[c])] =
                         @ + Count(r.events, "get_state") + Count(r.events, "on")
                           + Count(r.events, "off")]
        /\ fauxmo' = [fauxmo EXCEPT ![c].transport =
                         IF Count(r.events, "close") > 0 THEN "closed" ELSE @]

\* the event loop delivering a message to Fauxmo.data_received; a transport
\* that was closed delivers no further data.  The run either ends without a
\* plugin call or stops inside the plugin method it calls.
DataReceived(c, msg) ==
    /\ last = NoRun
    /\ fauxmo[c].transport # "closed"
    /\ nrecv[c] < MaxRecv
    /\ nrecv' = [nrecv EXCEPT ![c] = IF fauxmo[c].transport = None THEN @ ELSE @ + 1]
    /\ \E method \in {PluginCall(fauxmo[c], msg)} :
          IF method = None
          THEN \E env \in ClockAndRandom : Finish(c, msg, env)
          ELSE /\ last' = [kind |-> "call", conn |-> c, msg |-> msg, method |-> method]
               /\ UNCHANGED <<fauxmo, nwrite, nclose, ncalls>>
    /\ UNCHANGED <<devices, tasks>>

\* the outstanding plugin method returns and data_received runs to its end
PluginReturns ==
    /\ last.kind = "call"
    /\ \E env \in Envs : Finish(last.conn, last.msg, env)
    /\ UNCHANGED <<nrecv, devices, tasks>>

\* add_device building a reply to the oldest pending query for the new device
AddDevice_joins_pending(device) ==
    /\ last = NoRun
    /\ Len(devices) < MaxDevices
    /\ devices' = Append(devices, device)
    /\ tasks' = IF tasks = <<>> THEN tasks
                ELSE Append(tasks, [tasks[1] EXCEPT
                                      !.response = SearchResponse(device, tasks[1].response.st)])
    /\ UNCHANGED <<fauxmo, nwrite, nclose, nrecv, ncalls, last>>

\* SSDPServer.add_device
AddDevice(device) ==
    /\ last = NoRun
    /\ Len(devices) < MaxDevices
    /\ devices' = Append(devices, device)
    /\ UNCHANGED <<fauxmo, nwrite, nclose, nrecv, ncalls, tasks, last>>

\* the futures of one datagram, each noted with the sender of that datagram
\* and the number of futures the datagram created
From(scheduled, addr) ==
    [i \in 1..Len(scheduled) |->
        [response |-> scheduled[i].response, addr |-> scheduled[i].addr,
         mx |-> scheduled[i].mx, query |-> addr, batch |-> Len(scheduled)]]

\* datagram reception held back until the pending replies have been sent
DatagramReceived_after_replies(data, addr) ==
    /\ last = NoRun
    /\ tasks = <<>>
    /\ \E r \in {datagram_received(devices, data, addr)} :
          /\ tasks' = tasks \o From(r.scheduled, addr)
          /\ last' = [kind |-> "udp", data |-> data, addr |-> addr,
                      raised |-> r.raised, scheduled |-> r.scheduled]
    /\ UNCHANGED <<fauxmo, nwrite, nclose, nrecv, ncalls, devices>>

\* the event loop delivering a datagram to SSDPServer.datagram_received
DatagramReceived(data, addr) ==
    /\ last = NoRun
    /\ \E r \in {datagram_received(devices, data, addr)} :
          /\ tasks' = tasks \o From(r.scheduled, addr)
          /\ last' = [kind |-> "udp", data |-> data, addr |-> addr,
                      raised |-> r.raised, scheduled |-> r.scheduled]
    /\ UNCHANGED <<fauxmo, nwrite, nclose, nrecv, ncalls, devices>>

\* SSDPServer._send_async_response for the i-th pending future: the delay is
\* drawn, slept, and the response handed to transport.sendto
SendAsyncResponse(i) ==
    /\ last = NoRun
    /\ i \in 1..Len(tasks)
    /\ \E delay \in Delays(tasks[i].mx) :
          last' = [kind |-> "send", response |-> tasks[i].response,
                   addr |-> tasks[i].addr, mx |-> tasks[i].mx, delay |-> delay,
                   query |-> tasks[i].query, batch |-> tasks[i].batch]
    /\ tasks' = Remove(tasks, i)
    /\ UNCHANGED <<fauxmo, nwrite, nclose, nrecv, ncalls, devices>>

\* the Fauxmo protocol alone, on one connection
NextTCP ==
    \/ ReturnToLoop
    \/ ConnectionMade("c1")
    \/ \E msg \in Messages : DataReceived("c1", msg)
    \/ PluginReturns

SpecTCP == Init /\ [][NextTCP]_vars

\* the SSDP server alone, one query's replies pending at a time
NextSSDP ==
    \/ ReturnToLoop
    \/ \E device \in DeviceArgs : AddDevice(device)
    \/ tasks = <<>> /\ \E data \in Datagrams, addr \in Addrs : DatagramReceived(data, addr)
    \/ \E i \in 1..Len(tasks) : SendAsyncResponse(i)

SpecSSDP == Init /\ [][NextSSDP]_vars

\* description requests and plain discovery queries
PlainMessages == {msg \in Messages : msg.rest = {}}
PlainDatagrams == {d \in Datagrams : d.mx = <<>> /\ Cardinality(d.sts) = 1 /\ d.man # None}

\* both protocols side by side
Next ==
    \/ ReturnToLoop
    \/ ConnectionMade("c1")
    \/ \E msg \in PlainMessages : DataReceived("c1", msg)
    \/ \E device \in DeviceArgs : AddDevice(device)
    \/ tasks = <<>> /\ \E data \in PlainDatagrams, addr \in Addrs : DatagramReceived(data, addr)
    \/ \E i \in 1..Len(tasks) : SendAsyncResponse(i)

Spec == Init /\ [][Next]_vars

\* a description request, a request of no shape, and commands that succeed,
\* fail or name no action
LoopMessages ==
    {msg \in Messages :
        \/ /\ msg.rest = {}
           /\ msg.line.method = "GET"
           /\ msg.line.target \in {"/setup.xml HTTP/1.1", "/setup.xml HTTP/1.0"}
        \/ /\ msg.line = [method |-> "POST", target |-> "/upnp/control/basicevent1 HTTP/1.1"]
           /\ msg.rest \in {{}, {SoapGetBinaryState}, {SoapSetBinaryState},
                            {SoapSetBinaryState, BinaryState1}}}

\* a query, a query with an MX value that is not a number, and datagrams
\* that are no queries
LoopDatagrams ==
    {d \in Datagrams :
        /\ d.man = "MAN: \"ssdp:discover\""
        /\ d.sts \in {{"ST: ssdp:all"}, {"ST: urn:schemas-upnp-org:device:basic:1"}}
        /\ d.mx \in {<<>>, << <<"<U+00B2>">> >>}}

\* the device registered and the sender of the datagrams
LoopDevices == {device \in DeviceArgs : device.name = "lamp"}
LoopAddrs == {<<"10.0.0.9", 50000>>}

\* two connections and the SSDP server on the one event loop
NextLoop ==
    \/ ReturnToLoop
    \/ \E c \in Conns : ConnectionMade(c)
    \/ \E c \in Conns, msg \in LoopMessages : DataReceived(c, msg)
    \/ PluginReturns
    \/ \E device \in LoopDevices : AddDevice(device)
    \/ /\ tasks = <<>>
       /\ \E data \in LoopDatagrams, addr \in LoopAddrs : DatagramReceived(data, addr)
    \/ \E i \in 1..Len(tasks) : SendAsyncResponse(i)

SpecLoop == Init /\ [][NextLoop]_vars

\* discovery queries with an MX value, one of them with a value that is not
\* a number, and datagrams that are no queries
QueryDatagrams ==
    {d \in Datagrams :
        /\ d.man = "MAN: \"ssdp:discover\""
        /\ d.sts \in {{"ST: ssdp:all"}, {"ST: urn:schemas-upnp-org:device:basic:1"}}
        /\ d.mx \in {<< <<"2.0">> >>, << <<"<U+00B2>">> >>}}

\* the SSDP server receiving datagrams while replies to earlier ones are pending
NextQueries ==
    \/ ReturnToLoop
    \/ \E device \in DeviceArgs : AddDevice(device)
    \/ /\ Len(tasks) + Len(devices) <= MaxPending
       /\ \E data \in QueryDatagrams, addr \in Addrs : DatagramReceived(data, addr)
    \/ \E i \in 1..MaxPending : SendAsyncResponse(i)

SpecQueries == Init /\ [][NextQueries]_vars

\* The event loop runs every callback that is ready, and the sleep of a
\* pending reply ends after at most five seconds: the loop always returns for
\* its next event, and no pending reply is passed over for ever.
SpecQueriesFair ==
    /\ Init /\ [][NextQueries]_vars
    /\ WF_vars(ReturnToLoop)
    /\ \A i \in 1..MaxPending : SF_vars(SendAsyncResponse(i))

-----------------------------------------------------------------------------
(* Properties of the Fauxmo protocol *)

Tcp == last.kind = "tcp"
Self == fauxmo[last.conn]
Writes(events) == {i \in 1..Len(events) : events[i].op = "write"}
PluginOps == {"get_state", "on", "off"}

ControlPaths == {"/upnp/control/insight1 HTTP/1.1", "/upnp/control/timesync1 HTTP/1.1",
                 "/upnp/control/basicevent1 HTTP/1.1"}

\* the five request shapes, in priority order
Shapes(msg) == <<
    msg.line = [method |-> "GET", target |-> "/setup.xml HTTP/1.1"],
    Contains(msg, "/eventservice.xml"),
    Contains(msg, "/metainfoservice.xml"),
    Contains(msg, "/insightservice.xml"),
    msg.line.method = "POST" /\ \E path \in ControlPaths : Contains(msg, path) >>

\* the first shape msg matches, 0 when it matches none
FirstShape(msg) ==
    LET hit == {i \in 1..5 : Shapes(msg)[i]}
    IN  IF hit = {} THEN 0 ELSE CHOOSE i \in hit : \A j \in hit : i <= j

Responders == <<{"handle_setup"}, {"handle_event"}, {"handle_metainfo"},
                {"handle_insight"}, {"handle_action", "handle_timesync_command"}>>

Documents == <<"setup", "eventservice", "metainfoservice", "insightservice">>

\* C1: a message that matches a shape is handed to exactly one responder, that
\* of the first shape it matches; when that is a description shape, the
\* document written is that shape's and the plugin is not called
C1_FirstShapeWins ==
    (Tcp /\ FirstShape(last.msg) # 0) =>
        LET k == FirstShape(last.msg)
        IN  /\ Len(last.handlers) = 1
            /\ last.handlers[1] \in Responders[k]
            /\ k < 5 => /\ Ops(last.events) \cap PluginOps = {}
                        /\ \A i \in Writes(last.events) :
                              last.events[i].data.body.doc = Documents[k]

\* a POST to a control path carrying a SetBinaryState command and mentioning
\* /eventservice.xml was answered with the event-service document
C1_Witness ==
    /\ Tcp
    /\ last.msg.line = [method |-> "POST", target |-> "/upnp/control/basicevent1 HTTP/1.1"]
    /\ last.msg.rest = {"/eventservice.xml", SoapSetBinaryState, BinaryState1}
    /\ last.handlers = <<"handle_event">>
    /\ Len(last.events) = 2
    /\ last.events[1].op = "write"
    /\ last.events[1].data.body.doc = "eventservice"

\* C2: a message that matches no shape writes nothing, closes nothing, calls
\* no plugin method and raises nothing; the transport is left as it was
C2_UnclassifiedLeftOpen ==
    (Tcp /\ FirstShape(last.msg) = 0) =>
        /\ last.handlers = <<>>
        /\ last.events = <<>>
        /\ ~last.raised
        /\ Self.transport # "closed"
        /\ nwrite[last.conn] = 0
        /\ nclose[last.conn] = 0

\* a GET to a control path with a command in it arrived on an open connection
\* and was left unanswered
C2_Witness ==
    /\ Tcp
    /\ FirstShape(last.msg) = 0
    /\ last.msg.line.method = "GET"
    /\ SoapSetBinaryState \in last.msg.rest
    /\ Self.transport = "open"

TimesyncLine == [method |-> "POST", target |-> "/upnp/control/timesync1 HTTP/1.1"]

ActionRun == Tcp /\ last.handlers = <<"handle_action">> /\ ~last.raised

\* the action requested: the first command token found, in the order of the chain
Requested(msg) ==
    LET has(token) == \E f \in msg.rest \cap SoapFragments : Fold(f) = Fold(token)
    IN  CASE has(SoapGetBinaryState)   -> "GetBinaryState"
          [] has(SoapGetInsightParams) -> "GetInsightParams"
          [] has(SoapSetBinaryState)   -> "SetBinaryState"
          [] has(SoapGetFriendlyName)  -> "GetFriendlyName"
          [] OTHER                     -> None

Rets(events, op) == {events[i].ret : i \in {j \in 1..Len(events) : events[j].op = op}}

IsOn(state) == state \in {"on", "ON"}
IsOff(state) == state \in {"off", "Off"}

\* the command of the last run did not succeed
Failed ==
    \/ Requested(last.msg) = None
    \/ \E state \in Rets(last.events, "get_state") : ~IsOn(state) /\ ~IsOff(state)
    \/ /\ Requested(last.msg) = "SetBinaryState"
       /\ BinaryState0 \notin last.msg.rest
       /\ BinaryState1 \notin last.msg.rest
    \/ FALSE \in Rets(last.events, "on") \cup Rets(last.events, "off")

\* C4: a command that does not succeed writes nothing and closes the
\* transport exactly once
C4_FailureClosesSilently ==
    (ActionRun /\ Failed) =>
        /\ Count(last.events, "write") = 0
        /\ Count(last.events, "close") = 1
        /\ last.events[Len(last.events)].op = "close"
        /\ nwrite[last.conn] = 0
        /\ nclose[last.conn] = 1
        /\ Self.transport = "closed"

\* the plugin's off() returned false and the connection was closed unanswered
C4_Witness ==
    /\ ActionRun
    /\ Rets(last.events, "off") = {FALSE}
    /\ Count(last.events, "write") = 0
    /\ nclose[last.conn] = 1

\* C5: GetBinaryState reads the state once and answers 1 for on and 0 for
\* off in any letter case; any other state closes the connection unanswered
C5_GetBinaryState ==
    (ActionRun /\ Requested(last.msg) = "GetBinaryState") =>
        /\ Count(last.events, "get_state") = 1
        /\ Ops(last.events) \cap {"on", "off"} = {}
        /\ Count(last.events, "close") = 1
        /\ \A state \in Rets(last.events, "get_state") :
              /\ IsOn(state) =>
                    /\ Count(last.events, "write") = 1
                    /\ \A i \in Writes(last.events) :
                          /\ last.events[i].data.body.return_val = <<"1">>
                          /\ last.events[i].data.body.action_type = "BinaryState"
              /\ IsOff(state) =>
                    /\ Count(last.events, "write") = 1
                    /\ \A i \in Writes(last.events) :
                          /\ last.events[i].data.body.return_val = <<"0">>
                          /\ last.events[i].data.body.action_type = "BinaryState"
              /\ (~IsOn(state) /\ ~IsOff(state)) =>
                    /\ Count(last.events, "write") = 0
                    /\ nwrite[last.conn] = 0

\* a plugin reporting "ON" was answered with 1
C5_Witness ==
    /\ ActionRun
    /\ Requested(last.msg) = "GetBinaryState"
    /\ Rets(last.events, "get_state") = {"ON"}
    /\ \E i \in Writes(last.events) : last.events[i].data.body.return_val = <<"1">>

\* what a SetBinaryState run must look like when `method` is the plugin method
\* its body asks for and `literal` the metering string of that direction
SetAnswer(method, literal) ==
    /\ Count(last.events, method) = 1
    /\ Ops(last.events) \cap PluginOps = {method}
    /\ TRUE \in Rets(last.events, method) =>
          /\ Count(last.events, "write") = 1
          /\ \A i \in Writes(last.events) :
                last.events[i].data.body.return_val = <<literal>>

SetRun == ActionRun /\ Requested(last.msg) = "SetBinaryState"

NeitherLiteral ==
    /\ Ops(last.events) \cap PluginOps = {}
    /\ Count(last.events, "write") = 0

\* C6 as stated: a body containing the 1 literal turns on, a body containing
\* the 0 literal turns off, a body with neither calls nothing and writes nothing
C6_SetBinaryState_AsStated ==
    SetRun =>
        /\ BinaryState1 \in last.msg.rest => SetAnswer("on", MeterOn)
        /\ BinaryState0 \in last.msg.rest => SetAnswer("off", MeterOff)
        /\ (last.msg.rest \cap {BinaryState0, BinaryState1} = {}) => NeitherLiteral

\* C6 amended: a body containing the 0 literal turns off; a body containing
\* the 1 literal and not the 0 literal turns on; a body with neither calls
\* nothing and writes nothing
C6_SetBinaryState ==
    SetRun =>
        /\ (BinaryState1 \in last.msg.rest /\ BinaryState0 \notin last.msg.rest)
              => SetAnswer("on", MeterOn)
        /\ BinaryState0 \in last.msg.rest => SetAnswer("off", MeterOff)
        /\ (last.msg.rest \cap {BinaryState0, BinaryState1} = {}) => NeitherLiteral

\* a body with the 1 literal alone turned the plugin on and was answered with
\* the on metering string
C6_Witness ==
    /\ SetRun
    /\ last.msg.rest \cap {BinaryState0, BinaryState1} = {BinaryState1}
    /\ Rets(last.events, "on") = {TRUE}
    /\ \E i \in Writes(last.events) : last.events[i].data.body.return_val = <<MeterOn>>

-----------------------------------------------------------------------------
(* Properties of the SSDP server *)

Udp == last.kind = "udp"
Sent == last.kind = "send"

ListedTargets == {discover_patterns[i] : i \in 1..Len(discover_patterns)}

\* the datagram holds the man token in some letter case and a listed target
Matching(data) ==
    /\ data.man \in ManLines
    /\ \E line \in data.sts, target \in ListedTargets : Occurs(target, line)

UsnSerial(response) == response.usn[2]
LocationOf(device) == <<"http://", device.ip_address, device.port, "/setup.xml">>

\* the replies scheduled by the last datagram are one per registered device,
\* in registry order, each with that device's serial and location
OnePerDevice ==
    /\ Len(last.scheduled) = Len(devices)
    /\ \A i \in 1..Len(devices) :
          /\ UsnSerial(last.scheduled[i].response) = make_serial(devices[i].name)
          /\ last.scheduled[i].response.location = LocationOf(devices[i])
          /\ last.scheduled[i].addr = last.addr

\* C7: a matching datagram schedules exactly one reply per registered device,
\* each carrying that device's own serial and its own ip and port
C7_OneReplyPerDevice == (Udp /\ Matching(last.data)) => OnePerDevice

\* C8: replies are scheduled exactly for the datagrams that hold the man token
\* and a listed search target; any other datagram schedules nothing and
\* raises nothing
C8_RepliesIffDiscovery ==
    Udp =>
        /\ Len(last.scheduled) > 0 => Matching(last.data)
        /\ (Matching(last.data) /\ Len(devices) > 0) => Len(last.scheduled) > 0
        /\ ~Matching(last.data) => (last.scheduled = <<>> /\ ~last.raised)

\* the number a single MX value token denotes, 0 when it denotes none
NumericValue(token) ==
    CASE token = "2.0" -> 2
      [] token = "7"   -> 7
      [] token = "4"   -> 4
      [] token = "-1"  -> -1
      [] OTHER         -> 0

\* MX as the numeric value of the MX line, 0 when the line is absent or its
\* value is not a number
ClaimedMX(data) ==
    IF data.mx = <<>> THEN 0
    ELSE IF Len(Head(data.mx)) = 1 THEN NumericValue(Head(data.mx)[1])
    ELSE 0

Clamp(mx) == Min(5, Max(0, mx))

\* C9: every reply is scheduled with the delay bound min(5, max(0, MX)) of
\* its datagram's MX value, and is sent after a delay within that bound
C9_DelayWithinMX ==
    /\ Udp => \A i \in 1..Len(last.scheduled) :
                 Clamp(last.scheduled[i].mx) = Clamp(ClaimedMX(last.data))
    /\ Sent => last.delay \in 0..Clamp(last.mx)

\* the name of the registered device a reply points to
DeviceName(response) ==
    (CHOOSE d \in DeviceArgs : response.location = LocationOf(d)).name

\* the serial in a reply's USN is the serial of every Fauxmo of that name
SameSerial(response) ==
    \A c \in Conns :
        fauxmo[c].name = DeviceName(response) => UsnSerial(response) = fauxmo[c].serial

SetupRun == Tcp /\ last.handlers = <<"handle_setup">> /\ ~last.raised

\* C10: the serial in the USN of a device's discovery replies is the serial
\* in the serialNumber and UDN of the setup document of that device
C10_SerialConsistent ==
    /\ \A i \in 1..Len(tasks) : SameSerial(tasks[i].response)
    /\ Sent => SameSerial(last.response)
    /\ SetupRun =>
          LET doc == last.events[1].data.body
          IN  /\ doc.friendlyName = Self.name
              /\ doc.serialNumber = Self.serial
              /\ doc.UDN = <<"uuid:Insight-1_0-", Self.serial>>
              /\ \A i \in 1..Len(tasks) :
                    DeviceName(tasks[i].response) = doc.friendlyName
                        => UsnSerial(tasks[i].response) = doc.serialNumber

\* a setup document was written for a device while a discovery reply for the
\* same device was pending
C10_Witness ==
    /\ SetupRun
    /\ \E i \in 1..Len(tasks) :
          /\ DeviceName(tasks[i].response) = last.events[1].data.body.friendlyName
          /\ UsnSerial(tasks[i].response) = last.events[1].data.body.serialNumber

-----------------------------------------------------------------------------
(* Properties of a connection session *)

Classified(msg) == FirstShape(msg) # 0

\* C11 as stated: after any message on an accepted connection the transport's
\* close has been called exactly once
C11_ClosedExactlyOnce_AsStated ==
    (Tcp /\ Self.transport # None) => nclose[last.conn] = 1

\* C11 amended: close is never called twice on a connection; every path that
\* handles a classified message on an accepted connection calls it exactly
\* once; a message that matches no shape leaves it uncalled
C11_ClosedExactlyOnce ==
    /\ \A c \in Conns : /\ nclose[c] <= 1
                        /\ nclose[c] = 1 <=> fauxmo[c].transport = "closed"
    /\ (Tcp /\ Self.transport # None /\ Classified(last.msg)) =>
          /\ Count(last.events, "close") = 1
          /\ nclose[last.conn] = 1
    /\ (Tcp /\ ~Classified(last.msg)) => nclose[last.conn] = 0

\* the second message of a connection, a command that fails, closed the
\* transport for the first and only time
C11_Witness ==
    /\ ActionRun
    /\ nrecv[last.conn] = 2
    /\ Failed
    /\ Count(last.events, "write") = 0
    /\ nclose[last.conn] = 1

\* C12 as stated: at most one response is written on a connection, and a
\* message delivered after the first one is not processed
C12_OneRequestOneResponse_AsStated ==
    /\ \A c \in Conns : nwrite[c] <= 1
    /\ (Tcp /\ nrecv[last.conn] > 1) => (last.handlers = <<>> /\ last.events = <<>>)

\* C12 amended: at most one response is written on a connection; the run that
\* handles a classified message is the only run of its connection that writes
\* or closes, and after it the connection delivers nothing more
C12_OneRequestOneResponse ==
    /\ \A c \in Conns : nwrite[c] <= 1
    /\ \A c \in Conns :
          fauxmo[c].transport = "closed" => ~ENABLED (\E msg \in Messages : DataReceived(c, msg))
    /\ (Tcp /\ last.handlers # <<>> /\ ~last.raised) =>
          /\ nwrite[last.conn] = Count(last.events, "write")
          /\ nclose[last.conn] = Count(last.events, "close")
          /\ Self.transport = "closed"

\* the second message of a connection was processed and answered, the first
\* having matched no shape
C12_Witness ==
    /\ Tcp
    /\ nrecv[last.conn] = 2
    /\ Len(last.handlers) = 1
    /\ Count(last.events, "write") = 1
    /\ nwrite[last.conn] = 1

\* C16: a classified message handled without a transport raises; nothing is
\* written or closed and no plugin method is called
C16_NoTransportRaises ==
    (Tcp /\ Self.transport = None /\ Classified(last.msg)) =>
        /\ last.raised
        /\ Len(last.handlers) = 1
        /\ last.events = <<>>
        /\ nwrite[last.conn] = 0
        /\ nclose[last.conn] = 0
        /\ ncalls[PluginOf(Self)] = 0

\* a SetBinaryState command arrived before connection_made and raised
C16_Witness ==
    /\ Tcp
    /\ Self.transport = None
    /\ last.handlers = <<"handle_action">>
    /\ Requested(last.msg) = "SetBinaryState"
    /\ BinaryState1 \in last.msg.rest
    /\ last.raised

\* the UTF-8 encoding of one code point
Utf8Bytes(cp) ==
    IF cp < 128 THEN <<cp>>
    ELSE IF cp < 2048 THEN <<192 + (cp \div 64), 128 + (cp % 64)>>
    ELSE IF cp < 65536
         THEN <<224 + (cp \div 4096), 128 + ((cp \div 64) % 64), 128 + (cp % 64)>>
    ELSE <<240 + (cp \div 262144), 128 + ((cp \div 4096) % 64),
           128 + ((cp \div 64) % 64), 128 + (cp % 64)>>

RECURSIVE Encode(_)
Encode(cps) == IF cps = <<>> THEN <<>> ELSE Utf8Bytes(Head(cps)) \o Encode(Tail(cps))

\* the number of bytes of the body that follows the blank line of a response
BodyBytes(response) ==
    LET text == Text(response.body)
    IN  Sum([i \in 1..Len(text) |-> text[i].ascii + Len(Encode(text[i].cps))])

\* C17: in every response written, CONTENT-LENGTH is the number of bytes of
\* the UTF-8 encoding of the body that follows the header block
C17_ContentLength ==
    Tcp => \A i \in Writes(last.events) :
              last.events[i].data.content_length = BodyBytes(last.events[i].data)

\* a setup document whose friendly name holds a two-byte character was
\* written with a CONTENT-LENGTH one above its number of characters
C17_Witness ==
    /\ Tcp
    /\ \E i \in Writes(last.events) :
          /\ last.events[i].data.body.doc = "setup"
          /\ last.events[i].data.body.friendlyName = "caf<U+00E9>"
          /\ last.events[i].data.content_length = len(Text(last.events[i].data.body)) + 1

-----------------------------------------------------------------------------
(* Properties of the delayed replies *)

\* the futures a datagram from addr has just created
Created == From(last.scheduled, last.addr)

\* C14: datagram_received returns with the replies it scheduled still
\* pending, behind those of earlier datagrams, and pending replies do not keep
\* the next datagram from being received
C14_SchedulingDoesNotBlock ==
    /\ Udp => /\ Len(tasks) >= Len(Created)
              /\ SubSeq(tasks, Len(tasks) - Len(Created) + 1, Len(tasks)) = Created
    /\ (last = NoRun /\ tasks # <<>>) =>
          \A data \in QueryDatagrams, addr \in Addrs : ENABLED DatagramReceived(data, addr)

\* a second datagram had its replies scheduled while a reply to an earlier
\* datagram of another sender was still pending
C14_Witness ==
    /\ Udp
    /\ last.scheduled # <<>>
    /\ Len(tasks) > Len(last.scheduled)
    /\ tasks[1].query # last.addr

\* every reply a query can schedule
Replies ==
    {[response |-> SearchResponse(device, "ST: ssdp:all"), addr |-> addr, mx |-> mx,
      query |-> addr, batch |-> n] :
        device \in DeviceArgs, addr \in Addrs, mx \in {2}, n \in 1..MaxDevices}

Pending(t) == \E i \in 1..Len(tasks) : tasks[i] = t

\* the step sends the i-th pending reply, which is pending no longer
Sends(i) ==
    /\ last = NoRun
    /\ last'.kind = "send"
    /\ last'.response = tasks[i].response /\ last'.addr = tasks[i].addr
    /\ tasks' = SubSeq(tasks, 1, i - 1) \o SubSeq(tasks, i + 1, Len(tasks))

\* C18: a pending reply leaves the pending ones only by being sent, one reply
\* for each sending, and every pending reply is eventually sent
C18_SentExactlyOnce ==
    /\ [][/\ Len(tasks') < Len(tasks) => \E i \in 1..Len(tasks) : Sends(i)
          /\ (last = NoRun /\ last'.kind = "send") => \E i \in 1..Len(tasks) : Sends(i)]_vars
    /\ \A t \in Replies :
          Pending(t) ~> (Sent /\ last.response = t.response /\ last.addr = t.addr)

\* a reply was sent while another reply was still pending
C18_Witness ==
    /\ Sent
    /\ last.delay = 2
    /\ tasks # <<>>

\* the first listed search target occurring in a datagram, None when none does
EarliestListed(data) ==
    LET F[k \in 1..(Len(discover_patterns) + 1)] ==
            IF k > Len(discover_patterns) THEN None
            ELSE IF \E line \in data.sts : Occurs(discover_patterns[k], line)
                 THEN discover_patterns[k]
                 ELSE F[k + 1]
    IN  F[1]

Bare == "ST: urn:Belkin:device:"

\* a search target line as replies render it
Rendered(target) == IF target = Bare THEN "ST: urn:Belkin:device:**" ELSE target

\* the value of a search target line: the line without its "ST: "
TargetValue(line) ==
    CASE line = "ST: urn:Belkin:device:**"            -> "urn:Belkin:device:**"
      [] line = "ST: urn:Belkin:service:basicevent:1" -> "urn:Belkin:service:basicevent:1"
      [] line = "ST: urn:Belkin:service:insight:1"    -> "urn:Belkin:service:insight:1"
      [] line = "ST: upnp:rootdevice"                 -> "upnp:rootdevice"
      [] line = "ST: ssdp:all"                        -> "ssdp:all"
      [] OTHER                                        -> None

NeverBare(response) ==
    /\ response.st # Bare
    /\ response.usn[4] = TargetValue(response.st)

\* C19: the ST line and the USN suffix of a reply are those of the first
\* listed target occurring in its datagram, the bare Belkin device target
\* rendered with its ** suffix; no reply carries the bare form
C19_EarliestListedTarget ==
    /\ Udp => \A i \in 1..Len(last.scheduled) :
                 /\ last.scheduled[i].response.st = Rendered(EarliestListed(last.data))
                 /\ NeverBare(last.scheduled[i].response)
    /\ \A i \in 1..Len(tasks) : NeverBare(tasks[i].response)
    /\ Sent => NeverBare(last.response)

\* a datagram holding ssdp:all and a Belkin device type was answered with
\* the ** form of the Belkin device target
C19_Witness ==
    /\ Udp
    /\ last.data.sts = {"ST: ssdp:all", "ST: urn:Belkin:device:controllee:1"}
    /\ last.scheduled # <<>>
    /\ last.scheduled[1].response.st = "ST: urn:Belkin:device:**"
    /\ last.scheduled[1].response.usn[4] = "urn:Belkin:device:**"

\* every reply goes to the sender of the datagram that scheduled it
ToItsSender ==
    /\ \A i \in 1..Len(tasks) : tasks[i].addr = tasks[i].query
    /\ Sent => last.addr = last.query

\* C20: every reply is sent to the sender of its query, and a query gets one
\* reply for each registered device, addressed to its sender, whatever other
\* replies are pending
C20_RepliesToTheirSender ==
    /\ ToItsSender
    /\ (Udp /\ Matching(last.data)) =>
          /\ Len(Created) = Len(devices)
          /\ \A i \in 1..Len(Created) :
                /\ Created[i].addr = last.addr
                /\ Created[i].response.location = LocationOf(devices[i])

\* the reply is one of those for the devices registered when its datagram came
ForRegisteredThen(t) ==
    /\ t.batch <= Len(devices)
    /\ \E k \in 1..t.batch : t.response.location = LocationOf(devices[k])

\* the step receives a datagram
Receives == last = NoRun /\ last'.kind = "udp"

\* C21: the replies of a query are those for the devices registered when its
\* datagram is received: registering a device leaves the pending replies as
\* they are, a pending reply is for a device registered when its datagram
\* came and is sent as it was built, and the replies a datagram gets are one
\* for each device registered at its reception, in order, behind the pending
\* ones
C21_RepliesFixedAtReception ==
    /\ [](\A i \in 1..Len(tasks) : ForRegisteredThen(tasks[i]))
    /\ [][/\ devices' # devices => tasks' = tasks
          /\ (last = NoRun /\ last'.kind = "send") =>
                \E i \in 1..Len(tasks) : Sends(i) /\ last'.batch = tasks[i].batch
          /\ Receives =>
                /\ devices' = devices
                /\ Len(tasks') >= Len(tasks)
                /\ SubSeq(tasks', 1, Len(tasks)) = tasks
                /\ Len(tasks') > Len(tasks) =>
                      /\ Len(tasks') = Len(tasks) + Len(devices)
                      /\ \A k \in 1..Len(devices) :
                            /\ tasks'[Len(tasks) + k].batch = Len(devices)
                            /\ tasks'[Len(tasks) + k].response.location =
                                  LocationOf(devices[k])]_vars

\* a datagram was answered for both registered devices while the one reply of
\* an earlier datagram, received when one device was registered, is pending
C21_Witness ==
    /\ Udp
    /\ Len(devices) = 2
    /\ Len(last.scheduled) = 2
    /\ last.scheduled[2].response.location = LocationOf(devices[2])
    /\ Len(tasks) = 3
    /\ tasks[1].batch = 1
    /\ tasks[1].response.location = LocationOf(devices[1])

-----------------------------------------------------------------------------
(* Properties of the handlers sharing the event loop *)

CallOutstanding == last.kind = "call"

\* what the process can still do for a connection other than the calling one
CanServe(c) ==
    /\ fauxmo[c].transport = None => ENABLED ConnectionMade(c)
    /\ (fauxmo[c].transport = "open" /\ nrecv[c] < MaxRecv) =>
          \A msg \in LoopMessages : ENABLED DataReceived(c, msg)

\* C13: while a plugin call made for one connection is outstanding, the
\* process can accept and serve the other connections and can receive
\* discovery datagrams
C13_CallDoesNotBlock ==
    CallOutstanding =>
        /\ \A c \in Conns \ {last.conn} : CanServe(c)
        /\ \A data \in LoopDatagrams, addr \in Addrs : ENABLED DatagramReceived(data, addr)

\* the run that has just ended failed: a message of no shape, a handler
\* without transport, a command left unanswered, or a datagram that scheduled
\* no reply
FailedRun(run) ==
    \/ /\ run.kind = "tcp"
       /\ run.handlers = <<>> \/ run.raised \/ Count(run.events, "write") = 0
    \/ /\ run.kind = "udp"
       /\ run.scheduled = <<>>

\* the connections a run did not serve
Others(run) == IF run.kind = "tcp" THEN Conns \ {run.conn} ELSE Conns

\* the devices whose plugin a run had no reason to call
OtherDevices(run) == IF run.kind = "tcp" THEN Names \ {fauxmo[run.conn].name} ELSE Names

\* C15: a request or datagram that fails leaves the registry, every
\* instance's name, serial and plugin, the other connections and the other
\* devices' plugins as they were
C15_FailureContained ==
    [][(last' # last /\ FailedRun(last')) =>
          /\ devices' = devices
          /\ \A c \in Conns : /\ fauxmo'[c].name = fauxmo[c].name
                              /\ fauxmo'[c].serial = fauxmo[c].serial
                              /\ fauxmo'[c].plugin = fauxmo[c].plugin
          /\ \A c \in Others(last') : /\ fauxmo'[c] = fauxmo[c]
                                      /\ nwrite'[c] = nwrite[c]
                                      /\ nclose'[c] = nclose[c]
          /\ \A n \in OtherDevices(last') : ncalls'[n] = ncalls[n]
          /\ last'.kind = "udp" => tasks' = tasks]_vars

\* a plugin refused a command on one connection while the connection of
\* another device was open and a device was registered
C15_Witness ==
    /\ Tcp
    /\ FALSE \in Rets(last.events, "on")
    /\ devices # <<>>
    /\ \E c \in Conns \ {last.conn} :
          /\ fauxmo[c].transport = "open"
          /\ fauxmo[c].name # Self.name

-----------------------------------------------------------------------------
(* Properties of the controller calls *)

\* a control command asking for or setting the binary state
BinaryStateCommand(msg) ==
    /\ FirstShape(msg) = 5
    /\ msg.line # TimesyncLine
    /\ Requested(msg) \in {"GetBinaryState", "SetBinaryState"}

\* handle_action answered: one write of a 200 response for this action type,
\* then the close
Answered(action_type) ==
    /\ Len(last.events) = 2
    /\ last.events[1].op = "write"
    /\ last.events[1].data.status = "HTTP/1.1 200 OK"
    /\ last.events[1].data.body.doc = "soap"
    /\ last.events[1].data.body.action_type = action_type
    /\ last.events[2].op = "close"

InsightLine == [method |-> "POST", target |-> "/upnp/control/insight1 HTTP/1.1"]

\* the same request sent to /upnp/control/basicevent1
ToBasicevent(msg) == [msg EXCEPT !.line.target = "/upnp/control/basicevent1 HTTP/1.1"]

\* the instance as the last run found it
Before == [Self EXCEPT !.transport = IF last.raised THEN None ELSE "open"]

\* a POST to insight1 that would reach handle_action on basicevent1 as well
OnEitherPath(msg) ==
    /\ msg.line = InsightLine
    /\ FirstShape(msg) = 5
    /\ "/upnp/control/timesync1 HTTP/1.1" \notin msg.rest

Switches(events) == Count(events, "on") + Count(events, "off")

BothLiterals(msg) == {BinaryState0, BinaryState1} \subseteq msg.rest

\* C24: one request calls at most one of on() and off(), at most once, and
\* raises the call counts by at most one; a SetBinaryState command whose body
\* holds both literals calls off() once and never on()
C24_AtMostOneSwitch ==
    /\ [](Tcp => Switches(last.events) <= 1)
    /\ []((SetRun /\ BothLiterals(last.msg)) =>
             /\ Count(last.events, "off") = 1
             /\ Ops(last.events) \cap PluginOps = {"off"})
    /\ []((CallOutstanding /\ Requested(last.msg) = "SetBinaryState"
                           /\ BothLiterals(last.msg)) => last.method = "off")
    /\ [][\A n \in Names : ncalls'[n] <= ncalls[n] + 1]_vars

\* a SetBinaryState command holding both literals turned the plugin off and
\* was answered with the off metering string
C24_Witness ==
    /\ SetRun
    /\ BothLiterals(last.msg)
    /\ Rets(last.events, "off") = {TRUE}
    /\ Count(last.events, "on") = 0
    /\ \E i \in Writes(last.events) : last.events[i].data.body.return_val = <<MeterOff>>

\* C25: handle_action without a transport raises before any plugin method is
\* called: the failed run holds no plugin call and leaves the call counts as
\* they were, and a plugin call is outstanding only for a handler that has
\* its transport
C25_RaisesBeforeAnyCall ==
    /\ []((Tcp /\ last.handlers = <<"handle_action">> /\ Self.transport = None) =>
             /\ last.raised
             /\ Ops(last.events) \cap PluginOps = {})
    /\ []((Tcp /\ last.raised) => Ops(last.events) \cap PluginOps = {})
    /\ [](CallOutstanding => fauxmo[last.conn].transport = "open")
    /\ [][(last' # last /\ last'.kind = "tcp" /\ last'.raised) => ncalls' = ncalls]_vars

\* a GetBinaryState command arrived before connection_made: handle_action
\* raised and get_state() was not called
C25_Witness ==
    /\ Tcp
    /\ last.handlers = <<"handle_action">>
    /\ Self.transport = None
    /\ Requested(last.msg) = "GetBinaryState"
    /\ last.raised
    /\ Count(last.events, "get_state") = 0

====
